---- MODULE Spec2Model ----
(***************************************************************************)
(* LAMatHome: the journal polling loop of main(), the entry ledger         *)
(* (init_db / entry_exists / save_entry) and the Telegram handler, as a    *)
(* state machine.  Strings the program tokenises (entry titles) are        *)
(* sequences of one-character strings, so that split / strip / lower /     *)
(* join are computed as Python computes them.                              *)
(***************************************************************************)
EXTENDS Naturals, Sequences, FiniteSets, TLC

\* ------------------------------------------------------------------ bounds

\* Longest entry list one rendering of the journal page shows.
MaxFeed == 2

\* Observation counters saturate here.
MaxCount == 4

\* ------------------------------------------------------- program constants

\* The login loop written as range(4).
LoginAttempts_oneMore == 3 + 1

\* range(3): waits for the Telegram search bar in one handler invocation.
LoginAttempts == 3

\* len(words) < 3 is an invalid prompt.
MinWords == 3

\* ------------------------------------------------------------ string model

\* Characters str.split() with no argument treats as separators.
Whitespace == {" ", "\t"}

\* The argument of .strip('.,!?:;').
StripChars == {".", ",", "!", "?", ":", ";"}

\* The character class [a-z] of the regular expression.
LowerLetters ==
    {"a", "b", "c", "d", "e", "f", "g", "h", "i", "j", "k", "l", "m",
     "n", "o", "p", "q", "r", "s", "t", "u", "v", "w", "x", "y", "z"}

\* str.lower() on one character (the upper-case letters the titles use).
LowerChar(c) ==
    CASE c = "T" -> "t"
      [] c = "B" -> "b"
      [] c = "E" -> "e"
      [] c = "L" -> "l"
      [] c = "G" -> "g"
      [] c = "R" -> "r"
      [] c = "A" -> "a"
      [] c = "M" -> "m"
      [] OTHER -> c

\* str.lower()
Lower(s) == [i \in 1..Len(s) |-> LowerChar(s[i])]

\* str.strip(chars): drop the leading and trailing characters that are in cs.
RECURSIVE LStrip(_, _)
LStrip(s, cs) ==
    IF s # <<>> /\ Head(s) \in cs THEN LStrip(Tail(s), cs) ELSE s

RECURSIVE RStrip(_, _)
RStrip(s, cs) ==
    IF s # <<>> /\ s[Len(s)] \in cs THEN RStrip(SubSeq(s, 1, Len(s) - 1), cs) ELSE s

Strip(s, cs) == RStrip(LStrip(s, cs), cs)

\* str.split(): the maximal runs of non-whitespace characters, in order.
RECURSIVE SplitFrom(_, _, _)
SplitFrom(s, cur, acc) ==
    IF s = <<>>
    THEN IF cur = <<>> THEN acc ELSE Append(acc, cur)
    ELSE IF Head(s) \in Whitespace
         THEN SplitFrom(Tail(s), <<>>, IF cur = <<>> THEN acc ELSE Append(acc, cur))
         ELSE SplitFrom(Tail(s), Append(cur, Head(s)), acc)

Split(s) == SplitFrom(s, <<>>, <<>>)

\* " ".join(words)
RECURSIVE Join(_)
Join(ws) ==
    IF ws = <<>> THEN <<>>
    ELSE IF Len(ws) = 1 THEN ws[1]
    ELSE ws[1] \o <<" ">> \o Join(Tail(ws))

\* re.match(r'^[a-z]+$', w) on a token (a token holds no line break).
MatchesLowerAlpha(w) == w # <<>> /\ \A i \in 1..Len(w) : w[i] \in LowerLetters

\* The literal "telegram".
Keyword == <<"t", "e", "l", "e", "g", "r", "a", "m">>

\* The first word without .lower().
FirstWord_noLower(title) == Strip(Strip(Split(title)[1], Whitespace), StripChars)

\* title.split()[0].strip().lower().strip('.,!?:;'); defined when the title has a token.
FirstWord(title) == Strip(Lower(Strip(Split(title)[1], Whitespace)), StripChars)

\* The condition testing only how the first word starts (startswith("t")).
IsTelegramCommand_firstLetter(title) ==
    FirstWord(title) # <<>> /\ FirstWord(title)[1] = "t"

\* The condition of the if that calls Telegram(browser, title).
IsTelegramCommand(title) ==
    MatchesLowerAlpha(FirstWord(title)) /\ FirstWord(title) = Keyword

\* user_search = words[1]
UserSearch(title) == Split(title)[2]

\* message = " ".join(words[2:])
Message(title) == Join(SubSeq(Split(title), 3, Len(Split(title))))

\* ------------------------------------------------------------ entry titles

T_alice ==
    <<"t", "e", "l", "e", "g", "r", "a", "m", " ", "a", "l", "i", "c", "e", " ",
      "h", "e", "l", "l", "o", " ", "t", "h", "e", "r", "e">>
T_Bob ==
    <<"T", "e", "l", "e", "g", "r", "a", "m", " ", "B", "o", "b", " ", "h", "i">>
T_note ==
    <<"n", "o", "t", "e", " ", "b", "u", "y", " ", "m", "i", "l", "k">>
T_hi ==
    <<"h", "i">>
T_blank ==
    <<" ">>
T_two ==
    <<"t", "e", "l", "e", "g", "r", "a", "m", " ", "b", "o", "b">>
T_one ==
    <<"t", "e", "l", "e", "g", "r", "a", "m">>
T_punct ==
    <<"T", "e", "l", "e", "g", "r", "a", "m", ":", " ", "a", "l", " ", " ",
      "h", "i", "\t", "y", "o", " ">>
T_digit ==
    <<"t", "3", "l", "e", "g", "r", "a", "m", " ", "a", "l", " ", "h", "i">>
T_paren ==
    <<"(", "t", "e", "l", "e", "g", "r", "a", "m", ")", " ", "a", "l", " ", "h", "i">>

\* The titles the journal may show.
Titles ==
    {T_alice, T_Bob, T_note, T_hi, T_blank, T_two, T_one, T_punct, T_digit, T_paren}

\* Presentation-formatted date and time texts of the detail view.
Dates == {"Nov 1"}
Times == {"9:00 AM", "9:01 AM"}

\* ------------------------------------------------------------------- state

VARIABLES
    ledger,     \* rows of table entries in journal_entries.db, in id order
    rhFile,     \* sessions/rabbithole_state.json: "missing", "empty" (zero length),
                \* "json" (JSON without a login, as the {} of the bootstrap) or
                \* "state" (a saved logged-in session)
    tgFile,     \* sessions/telegram_state.json: "missing", "empty" or "json"
    journal,    \* the entry keys the journal site can render during this behaviour
    rhLogged,   \* the journal site treats the main context as logged in
    pc,         \* the statement of main() / Telegram() the process is at
    feed,       \* the list items of the journal page as last loaded
    cyc,        \* what the current iteration of the while loop has done
    h,          \* locals and effects of the Telegram() call of this iteration
    openCtx,    \* Telegram browsing contexts of this process not yet closed
    invoked,    \* per key: calls of Telegram() for it, over all runs
    sent,       \* per key: messages sent for it, over all runs
    lastExit,   \* why the process ended, while it is stopped
    rh          \* this run's journal-site login: form checks made, session saves made

vars ==
    <<ledger, rhFile, tgFile, journal, rhLogged, pc, feed, cyc, h, openCtx,
      invoked, sent, lastExit, rh>>

\* The (title, date, time) keys of one title.
KeysOf(t) == [title : {t}, date : Dates, time : Times]

Keys == [title : Titles, date : Dates, time : Times]

\* A list item: the key its detail view shows, and whether it holds an svg.
EntriesOf(ks) == [key : ks, svg : BOOLEAN]

\* Every entry list of at most MaxFeed items.
FeedsOf(ks) == UNION {[1..n -> EntriesOf(ks)] : n \in 0..MaxFeed}

\* A field no text has been put in.
NoText == <<>>

\* The title / date / time locals before the detail view has been read.
NoKey == [title |-> NoText, date |-> "", time |-> ""]

Inc(n) == IF n < MaxCount THEN n + 1 ELSE n

\* The loop iteration before it has done anything.
NewCycle ==
    [listWait |-> "none", clicked |-> 0, extracted |-> FALSE, key |-> NoKey,
     existed |-> FALSE, inserts |-> 0, invokes |-> 0]

\* main() before page.goto("https://hole.rabbit.tech").
NoLogin == [checks |-> 0, writes |-> 0]

\* Telegram() before it has been called.
NoCall ==
    [active |-> FALSE, title |-> NoText, waits |-> 0, reloads |-> 0,
     login_successful |-> FALSE, user_search |-> NoText, message |-> NoText,
     searchFill |-> NoText, messageFill |-> NoText, sends |-> 0, writes |-> 0,
     opened |-> 0, closed |-> 0, outcome |-> "none"]

\* ------------------------------------------------------------------ ledger

\* init_db with DROP TABLE before CREATE TABLE: every start empties the table.
init_db_recreate(rows) == <<>>

\* CREATE TABLE IF NOT EXISTS entries: an existing table keeps its rows.
init_db(rows) == rows

\* entry_exists with the date and time parameters bound in the wrong order.
entry_exists_swapped(rows, k) ==
    \E i \in 1..Len(rows) :
        rows[i].title = k.title /\ rows[i].date = k.time /\ rows[i].time = k.date

\* SELECT * FROM entries WHERE title = ? AND date = ? AND time = ?; fetchone() is not None
entry_exists(rows, k) ==
    \E i \in 1..Len(rows) :
        rows[i].title = k.title /\ rows[i].date = k.date /\ rows[i].time = k.time

\* save_entry without conn.commit(): the row is lost when the connection closes.
save_entry_uncommitted(rows, k) == rows

\* INSERT INTO entries (title, date, time): a new row with the next id.
save_entry(rows, k) == Append(rows, k)

\* The for loop without the svg test: the first list item is clicked.
FirstValid_anyItem(f) == IF Len(f) > 0 THEN 1 ELSE 0

\* The for loop without its break: every item without an svg is clicked, the last stays.
FirstValid_noBreak(f) ==
    IF \E i \in 1..Len(f) : ~f[i].svg
    THEN CHOOSE i \in 1..Len(f) : ~f[i].svg /\ \A j \in (i + 1)..Len(f) : f[j].svg
    ELSE 0

\* The for loop counting down from the last item.
FirstValid_reversed(f) ==
    IF \E i \in 1..Len(f) : ~f[i].svg
    THEN CHOOSE i \in 1..Len(f) : ~f[i].svg /\ \A j \in 1..Len(f) : ~f[j].svg => j <= i
    ELSE 0

\* The first list item without an svg (0 when every item has one).
FirstValid(f) ==
    IF \E i \in 1..Len(f) : ~f[i].svg
    THEN CHOOSE i \in 1..Len(f) : ~f[i].svg /\ \A j \in 1..(i - 1) : f[j].svg
    ELSE 0

\* -------------------------------------------------------------------- init

Init ==
    /\ ledger = <<>>
    /\ rhFile \in {"missing", "empty"}
    /\ tgFile \in {"missing", "empty"}
    /\ \E t \in Titles : journal = KeysOf(t)
    /\ rhLogged = FALSE
    /\ pc = "stopped"
    /\ feed = <<>>
    /\ cyc = NewCycle
    /\ h = NoCall
    /\ openCtx = 0
    /\ invoked = [k \in journal |-> 0]
    /\ sent = [k \in journal |-> 0]
    /\ lastExit = "none"
    /\ rh = NoLogin

\* ------------------------------------------------------- process lifetime

\* python main.py: init_db(), the state-file bootstrap, the browser and the main context.
Start ==
    /\ pc = "stopped"
    /\ ledger' = init_db(ledger)
    /\ rhFile' = IF rhFile \in {"missing", "empty"} THEN "json" ELSE rhFile
    /\ pc' = "login"
    /\ lastExit' = "none"
    /\ UNCHANGED <<tgFile, journal, rhLogged, feed, cyc, h, openCtx, invoked, sent, rh>>

\* What the end of the process leaves: files and the table stay, the browser goes.
Exit(why) ==
    /\ pc' = "stopped"
    /\ lastExit' = why
    /\ rhLogged' = FALSE
    /\ feed' = <<>>
    /\ cyc' = NewCycle
    /\ h' = NoCall
    /\ openCtx' = 0
    /\ rh' = NoLogin
    /\ UNCHANGED <<ledger, rhFile, tgFile, journal, invoked, sent>>

\* The process is shut down from outside, at any statement.
Shutdown ==
    /\ pc # "stopped"
    /\ Exit("shutdown")

\* A page operation outside every try block raises; the error leaves main().
PageError ==
    /\ pc \in {"login", "nav", "select", "extract", "telegram", "tg_wait", "tg_search",
               "tg_send"}
    /\ Exit("PlaywrightError")

\* goto the journal site; the login form is filled in when it is visible.  Without
\* the form the site is logged in only through a session restored from the file.
Login ==
    /\ pc = "login"
    /\ \E formVisible \in BOOLEAN, accepted \in BOOLEAN :
          /\ ~formVisible /\ accepted => rhFile = "state"
          /\ rhLogged' = accepted
          /\ rhFile' = IF formVisible THEN (IF accepted THEN "state" ELSE "json")
                       ELSE rhFile
          /\ rh' = [checks |-> Inc(rh.checks),
                    writes |-> IF formVisible THEN Inc(rh.writes) ELSE rh.writes]
    /\ pc' = "nav"
    /\ UNCHANGED <<ledger, tgFile, journal, feed, cyc, h, openCtx, invoked, sent, lastExit>>

\* The journal site stops treating the session as logged in (seen at the next goto).
SessionExpires ==
    /\ pc = "nav"
    /\ rhLogged
    /\ rhLogged' = FALSE
    /\ UNCHANGED <<ledger, rhFile, tgFile, journal, pc, feed, cyc, h, openCtx, invoked,
                   sent, lastExit, rh>>

\* ------------------------------------------------------------ polling loop

\* while True: goto the journal details page and wait for load.
Navigate ==
    /\ pc = "nav"
    /\ feed' \in (IF rhLogged THEN FeedsOf(journal) ELSE {<<>>})
    /\ cyc' = NewCycle
    /\ h' = NoCall
    /\ pc' = "await"
    /\ UNCHANGED <<ledger, rhFile, tgFile, journal, rhLogged, openCtx, invoked, sent, lastExit, rh>>

\* The except branch running the login again instead of continue.
AwaitList_relogin ==
    /\ pc = "await"
    /\ \E appeared \in BOOLEAN :
          /\ appeared => feed # <<>>
          /\ pc' = IF appeared THEN "select" ELSE "login"
          /\ cyc' = [cyc EXCEPT !.listWait = IF appeared THEN "found" ELSE "timeout"]
    /\ UNCHANGED <<ledger, rhFile, tgFile, journal, rhLogged, feed, h, openCtx,
                   invoked, sent, lastExit, rh>>

\* wait_for_selector on the list items; a timeout is caught and the loop continues.
AwaitList ==
    /\ pc = "await"
    /\ \E appeared \in BOOLEAN :
          /\ appeared => feed # <<>>
          /\ pc' = IF appeared THEN "select" ELSE "nav"
          /\ cyc' = [cyc EXCEPT !.listWait = IF appeared THEN "found" ELSE "timeout"]
    /\ UNCHANGED <<ledger, rhFile, tgFile, journal, rhLogged, feed, h, openCtx,
                   invoked, sent, lastExit, rh>>

\* The "no valid entries" branch leaving the while loop (break for continue).
SelectEntry_breakWhenNone ==
    /\ pc = "select"
    /\ IF FirstValid(feed) # 0
       THEN /\ cyc' = [cyc EXCEPT !.clicked = FirstValid(feed)]
            /\ pc' = "extract"
            /\ UNCHANGED <<ledger, rhFile, tgFile, journal, rhLogged, feed, h, openCtx,
                           invoked, sent, lastExit, rh>>
       ELSE Exit("returned")

\* The for loop over the list items: click the first one without an svg.
SelectEntry ==
    /\ pc = "select"
    /\ IF FirstValid(feed) # 0
       THEN /\ cyc' = [cyc EXCEPT !.clicked = FirstValid(feed)]
            /\ pc' = "extract"
       ELSE /\ cyc' = cyc
            /\ pc' = "nav"
    /\ UNCHANGED <<ledger, rhFile, tgFile, journal, rhLogged, feed, h, openCtx,
                   invoked, sent, lastExit, rh>>

\* title, date, time = text_content() of the detail view of the clicked item.
Extract ==
    /\ pc = "extract"
    /\ cyc' = [cyc EXCEPT !.extracted = TRUE, !.key = feed[cyc.clicked].key]
    /\ pc' = "dedup"
    /\ UNCHANGED <<ledger, rhFile, tgFile, journal, rhLogged, feed, h, openCtx,
                   invoked, sent, lastExit, rh>>

\* The dispatch code outdented out of the else branch: it runs for a known entry too.
Dedup_outdented ==
    /\ pc = "dedup"
    /\ IF entry_exists(ledger, cyc.key)
       THEN /\ cyc' = [cyc EXCEPT !.existed = TRUE]
            /\ ledger' = ledger
       ELSE /\ ledger' = save_entry(ledger, cyc.key)
            /\ cyc' = [cyc EXCEPT !.inserts = Inc(@)]
    /\ pc' = "dispatch"
    /\ UNCHANGED <<rhFile, tgFile, journal, rhLogged, feed, h, openCtx, invoked, sent, lastExit, rh>>

\* save_entry moved after the dispatch code: the title is dispatched before it is saved.
Dedup_dispatchFirst ==
    /\ pc = "dedup"
    /\ IF entry_exists(ledger, cyc.key)
       THEN /\ cyc' = [cyc EXCEPT !.existed = TRUE]
            /\ pc' = "nav"
       ELSE /\ cyc' = cyc
            /\ pc' = "dispatch"
    /\ UNCHANGED <<ledger, rhFile, tgFile, journal, rhLogged, feed, h, openCtx, invoked,
                   sent, lastExit, rh>>

\* if entry_exists(...): reload; else: save_entry(...).
Dedup ==
    /\ pc = "dedup"
    /\ IF entry_exists(ledger, cyc.key)
       THEN /\ cyc' = [cyc EXCEPT !.existed = TRUE]
            /\ ledger' = ledger
            /\ pc' = "nav"
       ELSE /\ ledger' = save_entry(ledger, cyc.key)
            /\ cyc' = [cyc EXCEPT !.inserts = Inc(@)]
            /\ pc' = "dispatch"
    /\ UNCHANGED <<rhFile, tgFile, journal, rhLogged, feed, h, openCtx, invoked, sent, lastExit, rh>>

\* first_word = title.split()[0]...; Telegram(browser, title) when it is "telegram".
Dispatch ==
    /\ pc = "dispatch"
    /\ IF Split(cyc.key.title) = <<>>
       THEN Exit("IndexError")
       ELSE IF IsTelegramCommand(cyc.key.title)
            THEN /\ pc' = "telegram"
                 /\ cyc' = [cyc EXCEPT !.invokes = Inc(@)]
                 /\ invoked' = [invoked EXCEPT ![cyc.key] = Inc(@)]
                 /\ h' = [NoCall EXCEPT !.active = TRUE, !.title = cyc.key.title]
                 /\ UNCHANGED <<ledger, rhFile, tgFile, journal, rhLogged, feed, openCtx,
                                sent, lastExit, rh>>
            ELSE /\ pc' = "nav"
                 /\ UNCHANGED <<ledger, rhFile, tgFile, journal, rhLogged, feed, cyc, h,
                                openCtx, invoked, sent, lastExit, rh>>

\* -------------------------------------------------------- Telegram handler

\* Telegram(browser, title) up to the login loop: the context, the page, the words.
TelegramEnter ==
    /\ pc = "telegram"
    /\ IF tgFile = "empty"
       THEN Exit("JSONDecodeError")
       ELSE /\ openCtx' = Inc(openCtx)
            /\ IF Len(Split(h.title)) < MinWords
               THEN /\ h' = [h EXCEPT !.opened = 1, !.active = FALSE,
                                      !.outcome = "invalid"]
                    /\ pc' = "nav"
               ELSE /\ h' = [h EXCEPT !.opened = 1,
                                      !.user_search = UserSearch(h.title),
                                      !.message = Message(h.title)]
                    /\ pc' = "tg_wait"
            /\ UNCHANGED <<ledger, rhFile, tgFile, journal, rhLogged, feed, cyc,
                           invoked, sent, lastExit, rh>>

\* One pass of for _ in range(3): wait for the search bar; reload on a timeout.
TelegramWait ==
    /\ pc = "tg_wait"
    /\ h.waits < LoginAttempts
    /\ \E appeared \in BOOLEAN :
          IF appeared
          THEN /\ h' = [h EXCEPT !.waits = Inc(@), !.login_successful = TRUE]
               /\ pc' = "tg_search"
          ELSE /\ h' = [h EXCEPT !.waits = Inc(@), !.reloads = Inc(@)]
               /\ pc' = "tg_wait"
    /\ UNCHANGED <<ledger, rhFile, tgFile, journal, rhLogged, feed, cyc, openCtx,
                   invoked, sent, lastExit, rh>>

\* The failure branch without its return: control falls through to the final save.
TelegramLoginFailed_noReturn ==
    /\ pc = "tg_wait"
    /\ h.waits >= LoginAttempts
    /\ ~h.login_successful
    /\ h' = [h EXCEPT !.closed = 1, !.active = FALSE, !.outcome = "login_failed",
                      !.writes = Inc(@)]
    /\ tgFile' = "json"
    /\ openCtx' = openCtx - 1
    /\ pc' = "nav"
    /\ UNCHANGED <<ledger, rhFile, journal, rhLogged, feed, cyc, invoked, sent, lastExit, rh>>

\* The loop ran out: log the failure, close the context, return.
TelegramLoginFailed ==
    /\ pc = "tg_wait"
    /\ h.waits >= LoginAttempts
    /\ ~h.login_successful
    /\ h' = [h EXCEPT !.closed = 1, !.active = FALSE, !.outcome = "login_failed"]
    /\ openCtx' = openCtx - 1
    /\ pc' = "nav"
    /\ UNCHANGED <<ledger, rhFile, tgFile, journal, rhLogged, feed, cyc, invoked, sent, lastExit, rh>>

\* The search without the storage_state call that follows the login.
TelegramSearch_noSave ==
    /\ pc = "tg_search"
    /\ \E chatVisible \in BOOLEAN :
          /\ h' = [h EXCEPT !.searchFill = h.user_search]
          /\ pc' = IF chatVisible THEN "tg_send" ELSE "tg_miss"
    /\ UNCHANGED <<ledger, rhFile, tgFile, journal, rhLogged, feed, cyc, openCtx, invoked,
                   sent, lastExit, rh>>

\* Logged in: save the session, search for the user, look for a chat in the results.
TelegramSearch ==
    /\ pc = "tg_search"
    /\ tgFile' = "json"
    /\ \E chatVisible \in BOOLEAN :
          /\ h' = [h EXCEPT !.writes = Inc(@), !.searchFill = h.user_search]
          /\ pc' = IF chatVisible THEN "tg_send" ELSE "tg_miss"
    /\ UNCHANGED <<ledger, rhFile, journal, rhLogged, feed, cyc, openCtx, invoked, sent, lastExit, rh>>

\* Open the chat, fill the message, click send; save the session, close the context.
TelegramSend ==
    /\ pc = "tg_send"
    /\ h' = [h EXCEPT !.messageFill = h.message, !.sends = Inc(@), !.writes = Inc(@),
                      !.closed = 1, !.active = FALSE, !.outcome = "sent"]
    /\ sent' = [sent EXCEPT ![cyc.key] = Inc(@)]
    /\ tgFile' = "json"
    /\ openCtx' = openCtx - 1
    /\ pc' = "nav"
    /\ UNCHANGED <<ledger, rhFile, journal, rhLogged, feed, cyc, invoked, lastExit, rh>>

\* No chat under the results: log, close the context, return.
TelegramNoUser ==
    /\ pc = "tg_miss"
    /\ h' = [h EXCEPT !.closed = 1, !.active = FALSE, !.outcome = "no_user"]
    /\ openCtx' = openCtx - 1
    /\ pc' = "nav"
    /\ UNCHANGED <<ledger, rhFile, tgFile, journal, rhLogged, feed, cyc, invoked, sent, lastExit, rh>>

\* ----------------------------------------------------------- specification

Next ==
    \/ Start
    \/ Shutdown
    \/ PageError
    \/ Login
    \/ SessionExpires
    \/ Navigate
    \/ AwaitList
    \/ SelectEntry
    \/ Extract
    \/ Dedup
    \/ Dispatch
    \/ TelegramEnter
    \/ TelegramWait
    \/ TelegramLoginFailed
    \/ TelegramSearch
    \/ TelegramSend
    \/ TelegramNoUser

Spec == Init /\ [][Next]_vars

TypeOK ==
    /\ pc \in {"stopped", "login", "nav", "await", "select", "extract", "dedup",
               "dispatch", "telegram", "tg_wait", "tg_search", "tg_send", "tg_miss"}
    /\ rhFile \in {"missing", "empty", "json", "state"}
    /\ tgFile \in {"missing", "empty", "json"}
    /\ \A i \in 1..Len(ledger) : ledger[i] \in journal
    /\ Len(feed) <= MaxFeed

\* ------------------------------------------------------------------ claims

\* The key is the key of some row of the table.
InLedger(k) == \E i \in 1..Len(ledger) : ledger[i] = k

HandlerPcs == {"telegram", "tg_wait", "tg_search", "tg_send", "tg_miss"}

\* C1. Idempotence of the poll cycle: when the key read from the detail view is
\* already a row of the ledger - in the first run or after a restart - the step that
\* consults the ledger adds no row, makes no Telegram call, sends nothing, and ends
\* the cycle: the loop goes back to navigation without reaching the dispatch code.
C1_Idempotent ==
    [][(pc = "dedup" /\ InLedger(cyc.key))
          => /\ ledger' = ledger
             /\ invoked' = invoked
             /\ sent' = sent
             /\ pc' \in {"nav", "stopped"}]_vars

\* The handler call for a saved entry ended the process (an empty session file), the
\* process was started again, and a cycle of the new run read the same entry.
C1_Witness ==
    /\ tgFile = "empty"
    /\ cyc.existed
    /\ InLedger(cyc.key)
    /\ invoked[cyc.key] = 1
    /\ pc = "nav"

\* C2. At most once: over all cycles and runs the Telegram handler is called at most
\* once for a key and at most one message is sent for a key.
C2_AtMostOnce ==
    \A k \in journal : invoked[k] <= 1 /\ sent[k] <= 1

\* The message of a key was sent, and a later cycle read the same entry again.
C2_Witness ==
    /\ cyc.existed
    /\ invoked[cyc.key] = 1
    /\ sent[cyc.key] = 1

\* C3. Ledger uniqueness: in every reachable state no two rows of the ledger hold the
\* same (title, date, time).
C3_Unique ==
    \A i, j \in 1..Len(ledger) : ledger[i] = ledger[j] => i = j

\* Two rows are in the ledger and a later cycle read a known entry.
C3_Witness ==
    /\ Len(ledger) = 2
    /\ cyc.existed

\* C4. Ledger monotonicity: no step - a start running init_db included - removes or
\* changes a row, and a key that is in the ledger is found by entry_exists ever after.
C4_Monotone ==
    [][/\ Len(ledger') >= Len(ledger)
       /\ \A i \in 1..Len(ledger) : ledger'[i] = ledger[i]
       /\ \A k \in journal : InLedger(k) => entry_exists(ledger', k)]_vars

\* The process has been restarted on a table that holds rows, and init_db has run.
C4_Witness ==
    /\ pc = "login"
    /\ Len(ledger) > 0

\* C5 as stated. Marker exclusion: a list item that holds an svg is never the item
\* clicked, and its key is neither inserted into the ledger nor dispatched.
C5_MarkedKeyNeverSaved ==
    \A i \in 1..Len(feed) :
        feed[i].svg =>
            /\ cyc.clicked # i
            /\ (cyc.inserts > 0 \/ cyc.invokes > 0) => cyc.key # feed[i].key

\* C5 as amended. A list item that holds an svg is never the item clicked; the key a
\* cycle inserts or dispatches is the key read from the clicked item, which holds no
\* svg; a cycle whose items all hold an svg clicks, inserts and dispatches nothing.
C5_MarkedNeverClicked ==
    /\ cyc.clicked # 0 => cyc.clicked \in 1..Len(feed) /\ ~feed[cyc.clicked].svg
    /\ cyc.extracted => cyc.clicked # 0 /\ cyc.key = feed[cyc.clicked].key
    /\ (cyc.inserts > 0 \/ cyc.invokes > 0) => cyc.extracted /\ InLedger(cyc.key)
    /\ (\A i \in 1..Len(feed) : feed[i].svg) =>
           cyc.clicked = 0 /\ cyc.inserts = 0 /\ cyc.invokes = 0

\* The first item holds an svg and shows an entry that is not in the ledger; the second
\* item, another entry without an svg, was clicked and saved.
C5_Witness ==
    /\ Len(feed) = 2
    /\ feed[1].svg
    /\ ~feed[2].svg
    /\ feed[1].key # feed[2].key
    /\ cyc.clicked = 2
    /\ cyc.inserts = 1
    /\ ~InLedger(feed[1].key)

\* The titles whose first whitespace-separated token, lowercased and with the
\* surrounding . , ! ? : ; removed, is "telegram".
C6_Routed == {T_alice, T_Bob, T_punct, T_two, T_one}

\* The second token of a routed title of three or more tokens.
C6_Query(t) ==
    CASE t = T_alice -> <<"a", "l", "i", "c", "e">>
      [] t = T_Bob -> <<"B", "o", "b">>
      [] t = T_punct -> <<"a", "l">>

\* Its tokens from the third on, joined by single spaces.
C6_Body(t) ==
    CASE t = T_alice -> <<"h", "e", "l", "l", "o", " ", "t", "h", "e", "r", "e">>
      [] t = T_Bob -> <<"h", "i">>
      [] t = T_punct -> <<"h", "i", " ", "y", "o">>

\* C6. Command grammar: once the dispatch code has run for a newly saved entry, the
\* Telegram handler has been called exactly when the first token of the title,
\* lowercased and stripped, is "telegram"; the text the handler searches for is the
\* second token as written and the text it sends is the rest joined by single spaces.
C6_Grammar ==
    /\ (cyc.inserts > 0 /\ pc # "dispatch") =>
           (cyc.invokes > 0 <=> cyc.key.title \in C6_Routed)
    /\ h.searchFill # NoText => h.searchFill = C6_Query(h.title)
    /\ h.messageFill # NoText => h.messageFill = C6_Body(h.title)

\* "Telegram Bob hi" was routed, "Bob" searched and "hi" sent.
C6_Witness ==
    /\ h.title = T_Bob
    /\ h.outcome = "sent"
    /\ h.searchFill = <<"B", "o", "b">>
    /\ h.messageFill = <<"h", "i">>

\* The titles of fewer than three tokens.
C7_Short == {T_hi, T_blank, T_two, T_one}

\* C7 as stated. Malformed command is dropped: for a title of fewer than three tokens
\* the handler is not called, no browsing context is opened, no message is sent, and
\* the loop goes on to its next cycle instead of ending the process.
C7_MalformedDropped ==
    /\ cyc.key.title \in C7_Short =>
           /\ cyc.invokes = 0
           /\ h.opened = 0
           /\ sent[cyc.key] = 0
           /\ pc \notin HandlerPcs
    /\ lastExit # "IndexError"

\* C8. Authentication retry bound: one handler call waits for the search bar at most
\* 3 times, reloading after each wait that timed out, and reports the login failure
\* exactly after 3 timed-out waits.
C8_RetryBound ==
    /\ h.waits <= 3
    /\ h.reloads <= h.waits
    /\ h.outcome = "login_failed" =>
           h.waits = 3 /\ h.reloads = 3 /\ ~h.login_successful

\* A handler call has reported the login failure.
C8_Witness ==
    /\ h.outcome = "login_failed"
    /\ h.waits = 3

\* C9. Authentication failure aborts the operation: a handler call whose 3 waits all
\* timed out has searched nothing, composed nothing, sent nothing and written no
\* session state; it is the only handler call of its cycle, and control is back in
\* the polling loop.
C9_AuthFailureAborts ==
    h.outcome = "login_failed" =>
        /\ h.searchFill = NoText
        /\ h.messageFill = NoText
        /\ h.sends = 0
        /\ h.writes = 0
        /\ sent[cyc.key] = 0
        /\ cyc.invokes = 1
        /\ pc \in {"nav", "stopped"}

\* The handler gave up on a telegram session file that was never written, and the loop
\* is about to navigate again.
C9_Witness ==
    /\ h.outcome = "login_failed"
    /\ tgFile = "missing"
    /\ pc = "nav"

\* C10. Handler target-miss: a handler call that logged in and found no chat under
\* the results has filled no message and sent nothing, and has written the session
\* file during the call.
C10_TargetMiss ==
    h.outcome = "no_user" =>
        /\ h.login_successful
        /\ h.searchFill = h.user_search
        /\ h.messageFill = NoText
        /\ h.sends = 0
        /\ sent[cyc.key] = 0
        /\ h.writes >= 1
        /\ tgFile = "json"

\* A handler call ended at "No users found".
C10_Witness ==
    /\ h.outcome = "no_user"
    /\ h.closed = 1
    /\ pc = "nav"

\* The statements of the while loop of main(), outside Telegram().
LoopPcs == {"nav", "await", "select", "extract", "dedup", "dispatch"}

\* C11 as stated. Context release on every exit path: a handler call that has returned
\* - sent, no user found, login failed, or fewer than 3 words - has closed the context
\* it opened, so no handler context is open while control is in the polling loop.
C11_ContextReleased ==
    /\ pc \in LoopPcs => openCtx = 0
    /\ (h.outcome # "none" /\ h.opened = 1) => h.closed = 1

\* C12 as stated. Transient UI failures restart the cycle: a failure while waiting for
\* the list, clicking the item or reading the detail texts never ends the process;
\* from these steps the process ends only by being shut down from outside.
C12_TransientRestarts ==
    [][(pc \in {"await", "select", "extract"} /\ pc' = "stopped")
          => lastExit' = "shutdown"]_vars

\* C13 as stated. Session persisted on successful authentication: while the polling
\* loop runs on a logged-in journal session this run has saved the journal session
\* file, and a handler call that has searched has saved the telegram session file.
C13_SessionPersisted ==
    /\ (pc \in LoopPcs /\ rhLogged) => rh.writes >= 1
    /\ h.searchFill # NoText => h.writes >= 1 /\ tgFile = "json"

\* C14 as stated. Session bootstrap: once the main context exists the journal session
\* file holds JSON, and for neither site does creating the context fail on a missing
\* or zero-length session file.
C14_Bootstrap ==
    /\ pc # "stopped" => rhFile \in {"json", "state"}
    /\ lastExit # "JSONDecodeError"

\* C15 as stated. Strict keyword match: a title whose first token holds a digit or
\* mixed-case letters never matches the keyword, so the handler is never called for it.
C15_StrictMatch ==
    cyc.key.title \in {T_digit, T_Bob, T_punct} => cyc.invokes = 0 /\ pc \notin HandlerPcs

\* C15 as amended. A title whose first token holds a digit never matches the keyword,
\* so the handler is never called for it; a first token in mixed case is lowercased
\* before the match, so "Telegram ..." does match once its entry is newly saved.
C15_DigitNeverMatches ==
    /\ cyc.key.title = T_digit => cyc.invokes = 0 /\ pc \notin HandlerPcs
    /\ (cyc.key.title \in {T_Bob, T_punct} /\ cyc.inserts > 0 /\ pc # "dispatch")
           => cyc.invokes = 1

\* The entry titled "t3legram al hi" was newly saved, the dispatch code ran, and the
\* loop went on without a handler call.
C15_Witness ==
    /\ cyc.key.title = T_digit
    /\ cyc.inserts = 1
    /\ cyc.invokes = 0
    /\ pc = "nav"

\* C16. Entry selection: the item a cycle clicks holds no svg and every item before it
\* holds one; the later steps of a cycle run only after a click; a cycle makes at most
\* one ledger insert and at most one handler call.
C16_FirstUnmarked ==
    /\ cyc.clicked # 0 =>
           /\ cyc.clicked \in 1..Len(feed)
           /\ ~feed[cyc.clicked].svg
           /\ \A j \in 1..(cyc.clicked - 1) : feed[j].svg
    /\ pc \in ({"extract", "dedup", "dispatch"} \cup HandlerPcs) => cyc.clicked # 0
    /\ cyc.inserts <= 1
    /\ cyc.invokes <= 1

\* The feed showed two new entries without an svg; the cycle clicked the first, saved
\* and dispatched it, and ended with the second still unknown to the ledger.
C16_Witness ==
    /\ Len(feed) = 2
    /\ ~feed[1].svg
    /\ ~feed[2].svg
    /\ feed[1].key # feed[2].key
    /\ cyc.clicked = 1
    /\ cyc.inserts = 1
    /\ cyc.invokes = 1
    /\ ~InLedger(feed[2].key)
    /\ pc = "nav"

\* Every item of the list holds an svg.
AllMarked(f) == f # <<>> /\ \A i \in 1..Len(f) : f[i].svg

\* C17. Unbounded reload on an all-marked feed: while the loaded list is all-marked the
\* cycle is at or before the selection step; the selection step then goes back to
\* navigation and changes nothing else - no row, no call, no counter that could bound
\* the repetitions - and the loop itself never ends the process there.
C17_AllMarkedReloads ==
    [][/\ AllMarked(feed) => pc \in {"stopped", "nav", "await", "select"}
       /\ (pc = "select" /\ AllMarked(feed)) =>
              \/ /\ pc' = "nav"
                 /\ UNCHANGED <<ledger, rhFile, tgFile, journal, rhLogged, feed, cyc, h,
                                openCtx, invoked, sent, lastExit, rh>>
              \/ /\ pc' = "stopped"
                 /\ lastExit' \in {"shutdown", "PlaywrightError"}
                 /\ UNCHANGED <<ledger, invoked, sent>>]_vars

\* A cycle found the list, found an svg in each of its two items, and went back to
\* navigation.
C17_Witness ==
    /\ Len(feed) = 2
    /\ AllMarked(feed)
    /\ cyc.listWait = "found"
    /\ cyc.clicked = 0
    /\ pc = "nav"

\* C18. Persist before dispatch: the handler is called for a key only when the key is
\* already a row of the ledger and was never dispatched before, so a key whose call
\* ended without a message - login failure, no user, an error, the process ending - is
\* not dispatched again.
C18_PersistBeforeDispatch ==
    [][/\ pc \in HandlerPcs => InLedger(cyc.key)
       /\ \A k \in journal :
              invoked'[k] # invoked[k] =>
                  /\ InLedger(k)
                  /\ invoked[k] = 0
                  /\ invoked'[k] = 1]_vars

\* The handler was called for an entry and sent nothing; a later cycle read the same
\* entry and found it in the ledger.
C18_Witness ==
    /\ tgFile # "empty"
    /\ cyc.existed
    /\ invoked[cyc.key] = 1
    /\ sent[cyc.key] = 0
    /\ pc = "nav"

\* The position of the first item without an svg: the least such position.
C19_Head(f) ==
    LET U == {i \in 1..Len(f) : ~f[i].svg}
    IN  IF U = {} THEN 0 ELSE CHOOSE i \in U : \A j \in U : i <= j

\* C19. Head-of-feed blocking: a cycle inserts or dispatches only the key of the first
\* item without an svg, and only when that key is not in the ledger; when it is, the
\* cycle inserts and dispatches nothing, whatever the later items show.
C19_HeadOfFeed ==
    [][/\ ledger' # ledger =>
              /\ C19_Head(feed) # 0
              /\ ~InLedger(feed[C19_Head(feed)].key)
              /\ ledger' = Append(ledger, feed[C19_Head(feed)].key)
       /\ invoked' # invoked =>
              /\ C19_Head(feed) # 0
              /\ invoked' = [invoked EXCEPT ![feed[C19_Head(feed)].key] = 1]
       /\ cyc.existed => cyc.inserts = 0 /\ cyc.invokes = 0]_vars

\* The first item without an svg was already in the ledger, a later item without an svg
\* was not, and the cycle ended without saving it.
C19_Witness ==
    /\ Len(feed) = 2
    /\ ~feed[1].svg
    /\ ~feed[2].svg
    /\ InLedger(feed[1].key)
    /\ ~InLedger(feed[2].key)
    /\ cyc.existed
    /\ cyc.inserts = 0
    /\ pc = "nav"

\* C20. Journal authentication happens once: a run checks the login form once, before
\* the loop, and never again; while the journal session is not logged in the loop is
\* at navigation or at the list wait, and that wait ends the cycle with no row and no
\* handler call.
C20_LoginOnce ==
    [][/\ rh.checks <= 1
       /\ pc \in (LoopPcs \cup HandlerPcs) => rh.checks = 1
       /\ rh'.checks > rh.checks => pc = "login"
       /\ (~rhLogged /\ pc \in (LoopPcs \cup HandlerPcs)) => pc \in {"nav", "await"}
       /\ (~rhLogged /\ pc = "await") =>
              /\ feed = <<>>
              /\ pc' \in {"nav", "stopped"}
              /\ ledger' = ledger
              /\ invoked' = invoked]_vars

\* The journal session is not logged in, the ledger holds an entry, and a cycle of
\* this run ended at the list wait.
C20_Witness ==
    /\ ~rhLogged
    /\ rh.checks = 1
    /\ Len(ledger) > 0
    /\ cyc.listWait = "timeout"
    /\ pc = "nav"

====
